---- MODULE Spec2Model ----
(***************************************************************************)
(* A model of extrajs-view: the class View (src/index.js), its escaping    *)
(* variant and the Viewable / ViewableStatic factories                     *)
(* (src/unnamed/part_000).                                                 *)
(*                                                                         *)
(* A View is a JavaScript function object.  Its call behaviour is the      *)
(* function body handed to the Function constructor; its named displays    *)
(* are own properties written by addDisplay, which live in the same        *)
(* property namespace as the function object's own `name`, the private     *)
(* `_DATA`, and the methods it inherits (`addDisplay`, `call`).            *)
(***************************************************************************)
EXTENDS Integers, Sequences, FiniteSets, TLC

VARIABLES views, last, evals, adds, attached

vars == <<views, last, evals, adds, attached>>

(***************************************************************************)
(* Bounds of the model.                                                    *)
(***************************************************************************)
\* longest text a data object carries (the string its default display returns)
MaxLen == 4
\* number of addDisplay calls in one behaviour
MaxAdds == 2

(***************************************************************************)
(* JavaScript values.                                                      *)
(***************************************************************************)
Undefined == [t |-> "undefined"]
Str(s) == [t |-> "string", v |-> s]
Num(n) == [t |-> "number", v |-> n]
Obj(text) == [t |-> "object", text |-> text]
ViewRef(v) == [t |-> "view", id |-> v]
NoView == [t |-> "none"]

Return(val) == [k |-> "return", val |-> val]
Throw(err, msg) == [k |-> "throw", err |-> err, msg |-> msg]

\* The characters of the strings: a digit, the two characters the constructor
\* escapes, and the three characters of a template substitution.
\* Each is one character; the backslash is written BS and the backtick BT.
BS == "backslash"

BT == "backtick"

Chars == {"1", BS, BT, "$", "{", "}"}

RECURSIVE StringsUpTo(_)
StringsUpTo(n) ==
  IF n = 0 THEN {<<>>}
  ELSE LET shorter == StringsUpTo(n - 1)
       IN  shorter \cup {Append(s, c) : s \in {x \in shorter : Len(x) = n - 1}, c \in Chars}

(***************************************************************************)
(* String.prototype.replace with a global one-character pattern.           *)
(***************************************************************************)
RECURSIVE Replace(_, _, _)
Replace(s, c, rep) ==
  IF s = <<>> THEN <<>>
  ELSE (IF Head(s) = c THEN rep ELSE <<Head(s)>>) \o Replace(Tail(s), c, rep)

\* The two replace calls of the constructor, in the code's order.
Escape(s) == Replace(Replace(s, BS, <<BS, BS>>), BT, <<BS, BT>>)

(***************************************************************************)
(* Evaluation of the generated body  "return `" + returned + BT  by the   *)
(* Function constructor: the text after the opening backtick is lexed as a *)
(* template literal.                                                       *)
(***************************************************************************)
IsDigits(c) == c # <<>> /\ \A i \in 1..Len(c) : c[i] = "1"

IsIdent(c) == c # <<>> /\ c[1] = "$" /\ \A i \in 1..Len(c) : c[i] \in {"$", "1"}

\* The expression between "${" and its "}".  Over Chars the only expressions
\* are a decimal literal, an identifier, {} and the shorthand literal {id};
\* a backslash in expression position is an illegal token.
ExprClass(c) ==
  IF IsDigits(c) THEN "number"
  ELSE IF IsIdent(c) THEN "identifier"
  ELSE IF c = <<"{", "}">> THEN "object"
  ELSE IF Len(c) >= 3 /\ c[1] = "{" /\ c[Len(c)] = "}" /\ IsIdent(SubSeq(c, 2, Len(c) - 1))
       THEN "identifier"
  ELSE "syntax"

\* Index of the "}" that ends the substitution whose expression starts at i
\* (braces nest); 0 when the source ends first.
RECURSIVE SubstEnd(_, _, _)
SubstEnd(s, i, depth) ==
  IF i > Len(s) THEN 0
  ELSE IF s[i] = "{" THEN SubstEnd(s, i + 1, depth + 1)
  ELSE IF s[i] = "}" THEN (IF depth = 0 THEN i ELSE SubstEnd(s, i + 1, depth - 1))
  ELSE SubstEnd(s, i + 1, depth)

SyntaxErr == [kind |-> "SyntaxError", val |-> <<>>]

\* s is the source after the opening backtick, closing backtick included.
\* kind "string": the template's value is val.  kind "ReferenceError": the
\* source parses, and evaluating it reads an identifier that has no binding
\* (the body runs in the global scope, which binds no name made of $ and 1).
\* kind "SyntaxError": the Function constructor rejects the source.
RECURSIVE Cook(_, _, _, _)
Cook(s, i, out, ref) ==
  IF i > Len(s) THEN SyntaxErr
  ELSE IF s[i] = BT
    THEN (IF i = Len(s)
          THEN [kind |-> IF ref THEN "ReferenceError" ELSE "string", val |-> out]
          ELSE SyntaxErr)
  ELSE IF s[i] = BS
    THEN (IF i = Len(s) \/ s[i + 1] = "1" THEN SyntaxErr
          ELSE Cook(s, i + 2, Append(out, s[i + 1]), ref))
  ELSE IF s[i] = "$" /\ i < Len(s) /\ s[i + 1] = "{"
    THEN LET j == SubstEnd(s, i + 2, 0)
             e == SubSeq(s, i + 2, j - 1)
             k == ExprClass(e)
         IN  IF j = 0 \/ k = "syntax" THEN SyntaxErr
             ELSE IF k = "number" THEN Cook(s, j + 1, out \o e, ref)
             ELSE IF k = "object" THEN Cook(s, j + 1, Append(out, "[object Object]"), ref)
             ELSE Cook(s, j + 1, out, TRUE)
  ELSE Cook(s, i + 1, Append(out, s[i]), ref)

\* The function body the constructor builds from the escaped string.
TemplateBody(returned) == [kind |-> "template", src |-> returned \o <<BT>>]

\* super("throw new ReferenceError('This view does not have a default display.')")
ThrowBody == [kind |-> "throw", src |-> <<>>]

\* Calling the function object: running its body.
RunBody(body) ==
  IF body.kind = "throw"
  THEN Throw("ReferenceError", "This view does not have a default display.")
  ELSE LET r == Cook(body.src, 1, <<>>, FALSE)
       IN  IF r.kind = "string" THEN Return(Str(r.val))
           ELSE Throw(r.kind, "template")

(***************************************************************************)
(* Functions handed to a View.                                             *)
(***************************************************************************)
Null == [t |-> "null"]

Fn(name, id, ret) == [t |-> "function", name |-> name, id |-> id, ret |-> ret]

\* Default displays: zero-parameter function expressions.
\*   text:   function () { return this.text }
\*   length: function () { return this.text.length }      (not a string)
\*   throw:  function () { throw new Error(...) }
DefaultFns == {Null, Fn("", "text", "string"), Fn("", "length", "number"), Fn("", "throw", "throws")}

\* fn.call(data) for a default display.
CallDefaultFn(fn, data) ==
  IF fn.id = "text" THEN Return(Str(data.text))
  ELSE IF fn.id = "length" THEN Return(Num(Len(data.text)))
  ELSE Throw("Error", "thrown by the default display")

\* Property names of a View object that the model tracks: display names a
\* caller may choose, the empty name of an anonymous function, the private
\* _DATA, the function object's own read-only `name` (`length` behaves the
\* same), and two inherited methods, addDisplay (View.prototype) and call
\* (Function.prototype).
PropNames == {"custom1", "custom2", "", "_DATA", "name", "addDisplay", "call"}

\* Own properties of a function object that are not writable.
NonWritable == {"name"}

\* Displays handed to addDisplay.  custom1_a and custom1_b are two functions
\* of the same name; custom2 returns a number; the function of id "anon" is
\* an anonymous function expression, whose name is "".
Displays ==
  { Fn("custom1", "custom1_a", "string"), Fn("custom1", "custom1_b", "string"),
    Fn("custom2", "custom2", "number"), Fn("", "anon", "string"),
    Fn("_DATA", "_DATA", "string"), Fn("name", "name", "string"),
    Fn("addDisplay", "addDisplay", "string"), Fn("call", "call", "string") }

\* What a display returns: the value is named by the function evaluated, the
\* context (`this`) it ran with and the arguments it got.
Rendered(fn, this_arg, args) ==
  [t |-> fn.ret, by |-> fn.id, this |-> this_arg, args |-> args]

\* fn.call(this_arg, ...args)
Apply(fn, this_arg, args) == Return(Rendered(fn, this_arg, args))

\* function (...args) { return fn.call(this_arg, ...args) }
Wrapper(fn, this_arg) == [t |-> "wrapper", fn |-> fn, this_arg |-> this_arg]

Builtin(name) == [t |-> "builtin", name |-> name]

(***************************************************************************)
(* The View object.                                                        *)
(***************************************************************************)
\* The `new View(...)` expression of a slot threw: no object exists.
Failed == [t |-> "failed"]

\* A function object made by super(body), then  this._DATA = data.
\* fn and data record the constructor's arguments.
FunctionObject(fn, data, body) ==
  [t |-> "view", fn |-> fn, data |-> data, body |-> body,
   props |-> [n \in PropNames |->
                IF n = "name" THEN Str(<<"anonymous">>)
                ELSE IF n = "_DATA" THEN data
                ELSE Undefined]]

\* new Function(body): the body is parsed when the object is made.
BodyParses(body) ==
  body.kind = "throw" \/ Cook(body.src, 1, <<>>, FALSE).kind # "SyntaxError"

\* data.toString() for the data objects of the model (plain objects).
ObjectToString(data) == Return(Str(<<"[object Object]">>))

\* constructor(fn, data) of the escaping variant (src/unnamed/part_000).
NewViewEscaping(v, fn, data) ==
  LET r == IF fn = Null THEN ObjectToString(data) ELSE CallDefaultFn(fn, data)
      n == IF fn = Null THEN 0 ELSE 1
  IN  IF r.k = "throw" THEN [out |-> r, obj |-> Failed, evals |-> n]
      ELSE IF r.val.t # "string"
        THEN [out |-> Throw("TypeError", "The passed display does not return a string."),
              obj |-> Failed, evals |-> n]
      ELSE LET body == TemplateBody(Escape(r.val.v))
           IN  IF BodyParses(body)
               THEN [out |-> Return(ViewRef(v)),
                     obj |-> FunctionObject(fn, data, body), evals |-> n]
               ELSE [out |-> Throw("SyntaxError", "template"), obj |-> Failed, evals |-> n]

\* A constructor that, given null, defers to data.toString() instead of
\* building the throwing body.
NewView_NullCallsToString(v, fn, data) == NewViewEscaping(v, fn, data)

\* constructor(fn, data) of src/index.js.  evals counts the evaluations of fn.
NewView(v, fn, data) ==
  IF fn = Null
  THEN [out |-> Return(ViewRef(v)), obj |-> FunctionObject(fn, data, ThrowBody), evals |-> 0]
  ELSE LET r == CallDefaultFn(fn, data)
       IN  IF r.k = "throw" THEN [out |-> r, obj |-> Failed, evals |-> 1]
           ELSE IF r.val.t # "string"
             THEN [out |-> Throw("TypeError", "fn.call(...).replace is not a function"),
                   obj |-> Failed, evals |-> 1]
           ELSE LET body == TemplateBody(Escape(r.val.v))
                IN  IF BodyParses(body)
                    THEN [out |-> Return(ViewRef(v)),
                          obj |-> FunctionObject(fn, data, body), evals |-> 1]
                    ELSE [out |-> Throw("SyntaxError", "template"),
                          obj |-> Failed, evals |-> 1]

\* Methods a View inherits: addDisplay from View.prototype, call from
\* Function.prototype (class View extends Function).
InheritedMethods == {"addDisplay", "call"}

\* obj[n]: an own property, else the prototype chain.
Get(obj, n) ==
  IF obj.props[n] # Undefined THEN obj.props[n]
  ELSE IF n \in InheritedMethods THEN Builtin(n)
  ELSE Undefined

\* An addDisplay that keeps the display first attached under a name.
AddDisplay_KeepsFirst(v, obj, args) ==
  LET fn == args[1]
      this_arg == IF Len(args) < 2 \/ args[2] = Undefined THEN obj.props["_DATA"] ELSE args[2]
  IN  IF fn.name \in NonWritable
      THEN [out |-> Throw("TypeError", "Cannot assign to read only property"), obj |-> obj]
      ELSE [out |-> Return(ViewRef(v)),
            obj |-> IF obj.props[fn.name] = Undefined
                    THEN [obj EXCEPT !.props[fn.name] = Wrapper(fn, this_arg)]
                    ELSE obj]

\* addDisplay(fn, this_arg = this._DATA), run on the object obj of slot v
\* (class bodies are strict: assigning a read-only property throws).
AddDisplay(v, obj, args) ==
  LET fn == args[1]
      this_arg == IF Len(args) < 2 \/ args[2] = Undefined THEN obj.props["_DATA"] ELSE args[2]
  IN  IF fn.name \in NonWritable
      THEN [out |-> Throw("TypeError", "Cannot assign to read only property"), obj |-> obj]
      ELSE [out |-> Return(ViewRef(v)),
            obj |-> [obj EXCEPT !.props[fn.name] = Wrapper(fn, this_arg)]]

\* The call expression  view.n(...args)  on the object obj of slot v.
CallMethod(v, obj, n, args) ==
  LET f == Get(obj, n)
  IN  IF f.t = "wrapper" THEN [out |-> Apply(f.fn, f.this_arg, args), obj |-> obj]
      ELSE IF f = Builtin("addDisplay") THEN AddDisplay(v, obj, args)
      ELSE IF f = Builtin("call") THEN [out |-> RunBody(obj.body), obj |-> obj]
      ELSE [out |-> Throw("TypeError", "not a function"), obj |-> obj]

(***************************************************************************)
(* State: views maps each slot to NoView, Failed or a View object; last is *)
(* the latest expression evaluated and its outcome; evals counts, per      *)
(* slot, the evaluations of the default display given to its constructor;  *)
(* adds counts the addDisplay calls made; attached records, per slot and   *)
(* name, the function and context of the latest attachment the addDisplay  *)
(* method made under that name, and how many it made.                      *)
(***************************************************************************)
NoAttachment == [t |-> "none"]

Attachment(fn, this_arg, count) ==
  [t |-> "attached", fn |-> fn, this_arg |-> this_arg, count |-> count]

\* Slot "v" holds a View made by  new View(fn, data),  slot "w" one made by a
\* Viewable or ViewableStatic factory.
ViewIds == {"v", "w"}

\* Data given to new View under Spec (the factories of slot "w" are given the
\* first); DataAll is the data under SpecRender.
Data == {Obj(<<"1">>), Obj(<<BT>>)}

DataAll == {Obj(s) : s \in StringsUpTo(MaxLen)}

\* The other data of an addDisplay call with a this_arg.
OtherData == Obj(<<"$">>)

\* What may follow fn in an addDisplay call: nothing, undefined, other data.
ThisArgs == {<<>>, <<Undefined>>, <<OtherData>>}

\* Argument lists of a named invocation; the invocations the behaviours make
\* pass one argument.
ArgLists == {<<>>, <<Str(<<"1">>)>>}

CallArgs == {<<Str(<<"1">>)>>}

Op(op, v, name, args, out) == [op |-> op, v |-> v, name |-> name, args |-> args, out |-> out]

Init ==
  /\ views = [v \in ViewIds |-> NoView]
  /\ last = Op("none", "v", "", <<>>, Return(Undefined))
  /\ evals = [v \in ViewIds |-> 0]
  /\ adds = 0
  /\ attached = [v \in ViewIds |-> [n \in PropNames |-> NoAttachment]]

\* new View(fn, d)
Construct(v, fn, d) ==
  /\ views[v] = NoView
  /\ LET r == NewView(v, fn, d)
     IN  /\ views' = [views EXCEPT ![v] = r.obj]
         /\ evals' = [evals EXCEPT ![v] = @ + r.evals]
         /\ last' = Op("construct", v, "", <<fn, d>>, r.out)
  /\ UNCHANGED <<adds, attached>>

\* new View(fn, d) of the escaping variant
ConstructEscaping(v, fn, d) ==
  /\ views[v] = NoView
  /\ LET r == NewViewEscaping(v, fn, d)
     IN  /\ views' = [views EXCEPT ![v] = r.obj]
         /\ evals' = [evals EXCEPT ![v] = @ + r.evals]
         /\ last' = Op("construct", v, "", <<fn, d>>, r.out)
  /\ UNCHANGED <<adds, attached>>

\* ViewableStatic.view(data) { return new View(null, data) }
StaticView(v, d) == Construct(v, Null, d)

\* Viewable: get view() { return new View(null, this) }
ViewableView(v, self) == Construct(v, Null, self)

\* A default invocation that evaluates the default display when called.
CallDefault_Lazy(v) ==
  /\ views[v].t = "view"
  /\ last' = Op("default", v, "", <<>>, RunBody(views[v].body))
  /\ evals' = [evals EXCEPT ![v] = @ + (IF views[v].fn = Null THEN 0 ELSE 1)]
  /\ UNCHANGED <<views, adds, attached>>

\* view()
CallDefault(v) ==
  /\ views[v].t = "view"
  /\ last' = Op("default", v, "", <<>>, RunBody(views[v].body))
  /\ UNCHANGED <<views, evals, adds, attached>>

\* The attachments of slot v after the call view.addDisplay(g, ...rest) with
\* outcome out: when the call ran the addDisplay method and the method
\* returned, g is attached under its name with the context the call gave,
\* or, when it gave none, with the data the View held.
Attach(v, g, rest, out) ==
  IF Get(views[v], "addDisplay") = Builtin("addDisplay") /\ out.k = "return"
  THEN LET ctx == IF rest = <<>> \/ rest[1] = Undefined
                  THEN views[v].props["_DATA"] ELSE rest[1]
           old == attached[v][g.name]
       IN  [attached EXCEPT ![v][g.name] =
              Attachment(g, ctx, IF old = NoAttachment THEN 1 ELSE old.count + 1)]
  ELSE attached

\* An addDisplay whose displays land on every View (as if written to
\* View.prototype).
CallAddDisplay_Shared(v, g, rest) ==
  /\ views[v].t = "view"
  /\ adds < MaxAdds
  /\ LET r == CallMethod(v, views[v], "addDisplay", <<g>> \o rest)
     IN  /\ views' = [u \in ViewIds |->
                        IF u = v THEN r.obj
                        ELSE IF views[u].t = "view" /\ r.obj # views[v]
                          THEN [views[u] EXCEPT !.props[g.name] = r.obj.props[g.name]]
                        ELSE views[u]]
         /\ last' = Op("addDisplay", v, g.name, <<g>> \o rest, r.out)
         /\ attached' = Attach(v, g, rest, r.out)
  /\ adds' = adds + 1
  /\ UNCHANGED evals

\* view.addDisplay(g) and view.addDisplay(g, this_arg)
CallAddDisplay(v, g, rest) ==
  /\ views[v].t = "view"
  /\ adds < MaxAdds
  /\ LET r == CallMethod(v, views[v], "addDisplay", <<g>> \o rest)
     IN  /\ views' = [views EXCEPT ![v] = r.obj]
         /\ last' = Op("addDisplay", v, g.name, <<g>> \o rest, r.out)
         /\ attached' = Attach(v, g, rest, r.out)
  /\ adds' = adds + 1
  /\ UNCHANGED evals

\* view.n(...args), for a name other than the addDisplay method itself
CallNamed(v, n, args) ==
  /\ views[v].t = "view"
  /\ Get(views[v], n) # Builtin("addDisplay")
  /\ LET r == CallMethod(v, views[v], n, args)
     IN  /\ views' = [views EXCEPT ![v] = r.obj]
         /\ last' = Op("named", v, n, args, r.out)
  /\ UNCHANGED <<evals, adds, attached>>

Next ==
  \/ \E fn \in DefaultFns, d \in Data : Construct("v", fn, d)
  \/ StaticView("w", Obj(<<"1">>))
  \/ ViewableView("w", Obj(<<"1">>))
  \/ \E v \in ViewIds : CallDefault(v)
  \/ \E v \in ViewIds, g \in Displays, rest \in ThisArgs : CallAddDisplay(v, g, rest)
  \/ \E v \in ViewIds, n \in PropNames, args \in CallArgs : CallNamed(v, n, args)

Spec == Init /\ [][Next]_vars

\* The default display over every text up to MaxLen, in both variants.
NextRender ==
  \/ \E fn \in DefaultFns, d \in DataAll : Construct("v", fn, d)
  \/ \E fn \in DefaultFns, d \in DataAll : ConstructEscaping("v", fn, d)
  \/ CallDefault("v")

SpecRender == Init /\ [][NextRender]_vars

(***************************************************************************)
(* Properties.                                                             *)
(***************************************************************************)
Constructed(v) == views[v].t = "view"

TextFn == Fn("", "text", "string")

NoDefaultDisplay == Throw("ReferenceError", "This view does not have a default display.")

\* The outcome of the call expression view.n(...args) in the current state.
NamedResult(v, n, args) == CallMethod(v, views[v], n, args).out

\* view.n is something a call expression can call.
Callable(v, n) == Get(views[v], n).t \in {"wrapper", "builtin"}

\* C1: for every data d and string-returning default display f, new View(f, d)
\* is constructed and invoking it with no arguments returns exactly the
\* string f returns with context d.
C1_DefaultRoundTrip ==
  /\ (last.op = "construct" /\ last.args[1] = TextFn) => last.out = Return(ViewRef(last.v))
  /\ (last.op = "default" /\ views[last.v].fn = TextFn)
       => last.out = CallDefaultFn(TextFn, views[last.v].data)

C3_AddedDisplayUsesContext ==
  last.op = "addDisplay" =>
    LET g == last.args[1]
        ctx == IF Len(last.args) = 1 THEN views[last.v].data ELSE last.args[2]
    IN  \A args \in ArgLists : NamedResult(last.v, g.name, args) = Apply(g, ctx, args)

\* C4: for every name attached at least once, view.n(args) evaluates the
\* function most recently attached under n, with that attachment's context;
\* attaching under another name changes neither.
C4_LastAttachmentWins ==
  \A v \in ViewIds : Constructed(v) =>
    \A n \in PropNames : attached[v][n] # NoAttachment =>
      \A args \in ArgLists :
        NamedResult(v, n, args) = Apply(attached[v][n].fn, attached[v][n].this_arg, args)

\* C4 witness: custom1 was attached twice, the second time as custom1_b, and
\* calling it evaluates custom1_b.
C4_Witness ==
  \E v \in ViewIds :
    /\ Constructed(v)
    /\ attached[v]["custom1"] # NoAttachment
    /\ attached[v]["custom1"].count = 2
    /\ attached[v]["custom1"].fn.id = "custom1_b"
    /\ last.op = "named" /\ last.v = v /\ last.name = "custom1"
    /\ last.out.k = "return" /\ last.out.val.by = "custom1_b"

\* C5: the data a View holds, and uses as the default context of addDisplay,
\* is always the value passed to its constructor.
C5_DataNeverChanges ==
  \A v \in ViewIds : Constructed(v) => views[v].props["_DATA"] = views[v].data

\* C6: addDisplay with an anonymous function (name "") fails, and no display
\* is ever registered under the empty name.
C6_AnonymousRejected ==
  /\ (last.op = "addDisplay" /\ last.args[1].name = "") => last.out.k = "throw"
  /\ \A v \in ViewIds : Constructed(v) => views[v].props[""] = Undefined

\* C7: a default or named invocation never returns a value that is not a
\* string: a display yielding one makes the call raise.
C7_NonStringRaises ==
  (last.op \in {"default", "named"} /\ last.out.k = "return") => last.out.val.t = "string"

\* C8 as stated: a name can be invoked on a View if and only if addDisplay
\* registered it on that View.
C8_CallableIffRegistered ==
  \A v \in ViewIds : Constructed(v) =>
    \A n \in PropNames : Callable(v, n) <=> attached[v][n] # NoAttachment

\* C8 as amended: a name can be invoked on a View if and only if addDisplay
\* registered it on that View or it names a method the View inherits;
\* invoking any other name raises a TypeError.
C8_CallableIffRegisteredOrInherited ==
  \A v \in ViewIds : Constructed(v) =>
    \A n \in PropNames :
      /\ Callable(v, n) <=> (attached[v][n] # NoAttachment \/ n \in InheritedMethods)
      /\ ~Callable(v, n) =>
           \A args \in ArgLists : NamedResult(v, n, args) = Throw("TypeError", "not a function")

\* C8 witness: custom1 is registered on one View and has just been invoked
\* on the other, where it is not registered, and the call threw.
C8_Witness ==
  /\ Constructed("v") /\ Constructed("w")
  /\ attached["v"]["custom1"] # NoAttachment
  /\ attached["w"]["custom1"] = NoAttachment
  /\ last.op = "named" /\ last.v = "w" /\ last.name = "custom1"
  /\ last.out = Throw("TypeError", "not a function")

\* C9: view.addDisplay(g) returns the View it was called on.
C9_AddDisplayReturnsThis ==
  last.op = "addDisplay" => last.out = Return(ViewRef(last.v))

\* C10 as stated: construction never evaluates the default display and
\* raises no error.
C10_ConstructionIsLazy ==
  last.op = "construct" => (last.out.k = "return" /\ evals[last.v] = 0)

\* C10 as amended: construction with a default display evaluates it exactly
\* once, so a display that throws or returns a non-string fails the
\* construction; no invocation evaluates it again; construction with null
\* evaluates nothing and succeeds.
C10_EvaluatedOnceAtConstruction ==
  /\ \A v \in ViewIds :
       /\ views[v] = NoView => evals[v] = 0
       /\ views[v] = Failed => evals[v] = 1
       /\ Constructed(v) => evals[v] = (IF views[v].fn = Null THEN 0 ELSE 1)
  /\ (last.op = "construct" /\ last.args[1] = Null) => last.out.k = "return"
  /\ (last.op = "construct" /\ last.args[1] # Null /\ last.args[1].ret # "string")
       => (last.out.k = "throw" /\ views[last.v] = Failed)

\* C10 witness: a View made with a default display has just been invoked with
\* no arguments and returned, the display having been evaluated once.
C10_Witness ==
  /\ last.op = "default"
  /\ views[last.v].fn = TextFn
  /\ last.out.k = "return"
  /\ evals[last.v] = 1

====
